---- MODULE Spec2Model ----
(***************************************************************************)
(* Model of convert.py: the pose-manifest converter.  main() loads two     *)
(* JSON documents, stacks the camera-to-world matrices, derives a centre   *)
(* and a scale factor, rewrites every translation in place and dumps the   *)
(* manifest.                                                               *)
(*                                                                         *)
(* Numbers.  float64 values are modelled exactly: a finite value is        *)
(* s * sqrt(n / d) with s in {-1, 0, 1} and n/d a reduced fraction, which  *)
(* is closed under every operation main() performs (sum of commensurable   *)
(* values, product, quotient, Euclidean norm).  The IEEE specials the      *)
(* program can produce, inf and nan, are values of their own.  Rounding    *)
(* of the last bit is not modelled.                                        *)
(***************************************************************************)
EXTENDS Integers, Sequences, FiniteSets, TLC

\* ------------------------------------------------------------------ bounds
MaxFrames == 3

\* ----------------------------------------------------------- exact numbers
RECURSIVE GCD(_, _)
GCD(a, b) == IF b = 0 THEN a ELSE GCD(b, a % b)

RECURSIVE ISqrtIn(_, _, _)
ISqrtIn(n, lo, hi) ==
    IF lo >= hi THEN lo
    ELSE LET mid == (lo + hi + 1) \div 2
         IN  IF mid * mid <= n THEN ISqrtIn(n, mid, hi) ELSE ISqrtIn(n, lo, mid - 1)

ISqrt(n) == ISqrtIn(n, 0, IF n < 46340 THEN n ELSE 46340)

Sign(i) == IF i > 0 THEN 1 ELSE IF i < 0 THEN -1 ELSE 0

Zero == [c |-> "fin", s |-> 0, n |-> 0, d |-> 1]

NaN == [c |-> "nan", s |-> 0, n |-> 0, d |-> 1]

Inf(sg) == [c |-> "inf", s |-> sg, n |-> 0, d |-> 1]

\* a value the representation cannot hold (a sum of incommensurable surds)
Irr == [c |-> "irr", s |-> 0, n |-> 0, d |-> 1]

\* s * sqrt(n / d), reduced
Fin(sg, n, d) ==
    IF sg = 0 \/ n = 0 THEN Zero
    ELSE LET g == GCD(n, d) IN [c |-> "fin", s |-> sg, n |-> n \div g, d |-> d \div g]

FromInt(i) == Fin(Sign(i), i * i, 1)

Rat(p, q) == Fin(Sign(p), p * p, q * q)

IsNaN(x) == x.c = "nan"

IsFinite(x) == x.c = "fin"

FNeg(x) == [x EXCEPT !.s = 0 - x.s]

FMul(x, y) ==
    IF x.c = "irr" \/ y.c = "irr" THEN Irr
    ELSE IF x.c = "nan" \/ y.c = "nan" THEN NaN
    ELSE IF x.c = "inf" \/ y.c = "inf"
         THEN IF x.s = 0 \/ y.s = 0 THEN NaN ELSE Inf(x.s * y.s)
    ELSE IF x.s = 0 \/ y.s = 0 THEN Zero
    ELSE LET g1 == GCD(x.n, y.d)
             g2 == GCD(y.n, x.d)
         IN  Fin(x.s * y.s, (x.n \div g1) * (y.n \div g2), (x.d \div g2) * (y.d \div g1))

\* numpy true_divide on float64: x / 0 is inf (nan for 0 / 0), never an exception
FDiv(x, y) ==
    IF x.c = "irr" \/ y.c = "irr" THEN Irr
    ELSE IF x.c = "nan" \/ y.c = "nan" THEN NaN
    ELSE IF y.c = "inf" THEN (IF x.c = "inf" THEN NaN ELSE Zero)
    ELSE IF x.c = "inf" THEN Inf(IF y.s < 0 THEN 0 - x.s ELSE x.s)
    ELSE IF y.s = 0 THEN (IF x.s = 0 THEN NaN ELSE Inf(x.s))
    ELSE FMul(x, [c |-> "fin", s |-> y.s, n |-> y.d, d |-> y.n])

FAdd(x, y) ==
    IF x.c = "irr" \/ y.c = "irr" THEN Irr
    ELSE IF x.c = "nan" \/ y.c = "nan" THEN NaN
    ELSE IF x.c = "inf" /\ y.c = "inf" THEN (IF x.s = y.s THEN x ELSE NaN)
    ELSE IF x.c = "inf" THEN x
    ELSE IF y.c = "inf" THEN y
    ELSE IF x.s = 0 THEN y
    ELSE IF y.s = 0 THEN x
    ELSE \* y / x = (y.s / x.s) * sqrt(A / B) must be rational: p / q
         LET A0 == y.n * x.d
             B0 == x.n * y.d
             g  == GCD(A0, B0)
             A  == A0 \div g
             B  == B0 \div g
             p  == ISqrt(A)
             q  == ISqrt(B)
             m  == q + x.s * y.s * p
         IN  IF p * p # A \/ q * q # B THEN Irr
             ELSE IF m = 0 THEN Zero
             ELSE LET g1 == GCD(x.n, q * q)
                      g2 == GCD(m * m, x.d)
                  IN  Fin(x.s * Sign(m),
                          (x.n \div g1) * ((m * m) \div g2),
                          (x.d \div g2) * ((q * q) \div g1))

FSub(x, y) == FAdd(x, FNeg(y))

\* x < y on finite values
FLess(x, y) ==
    IF x.s # y.s THEN x.s < y.s
    ELSE IF x.s = 0 THEN FALSE
    ELSE IF x.s = 1 THEN x.n * y.d < y.n * x.d
    ELSE y.n * x.d < x.n * y.d

\* np.linalg.norm of a 3-vector: sqrt(x^2 + y^2 + z^2); the square of
\* s * sqrt(n / d) is the rational n / d
Norm(v) ==
    IF \E k \in 1..3 : v[k].c = "irr" THEN Irr
    ELSE IF \E k \in 1..3 : v[k].c = "nan" THEN NaN
    ELSE IF \E k \in 1..3 : v[k].c = "inf" THEN Inf(1)
    ELSE LET l12 == (v[1].d \div GCD(v[1].d, v[2].d)) * v[2].d
             l   == (l12 \div GCD(l12, v[3].d)) * v[3].d
             num == v[1].n * (l \div v[1].d) + v[2].n * (l \div v[2].d)
                      + v[3].n * (l \div v[3].d)
         IN  Fin(Sign(num), num, l)

\* ------------------------------------------------------------ JSON values
\* a JSON number is [v |-> value, lit |-> "int" or "float"]: json.load gives
\* an int for the literal 4 and a float for 4.0, and np.array picks the dtype
\* from that
RotI == <<<<1, 0, 0>>, <<0, 1, 0>>, <<0, 0, 1>>>>

\* a 4x4 row-major homogeneous matrix: rotation R, integer translation t,
\* bottom row 0 0 0 1, every literal of the given form
JMatrix(R, t, lit) ==
    [r \in 1..4 |->
        [c \in 1..4 |->
            LET e == IF r = 4 THEN FromInt(IF c = 4 THEN 1 ELSE 0)
                     ELSE IF c = 4 THEN FromInt(t[r]) ELSE R[r][c]
            IN  [v |-> e, lit |-> lit]]]

\* the rotation about z by the angle whose cosine is 3/5
Rot35 ==
    <<<<Rat(3, 5), Rat(-4, 5), Zero>>,
      <<Rat(4, 5), Rat(3, 5), Zero>>,
      <<Zero, Zero, FromInt(1)>>>>

IntRot(R) == [r \in 1..3 |-> [c \in 1..3 |-> FromInt(R[r][c])]]

\* the world_from_camera values the input frames are drawn from
Matrices ==
    { JMatrix(IntRot(RotI), <<0, 0, 0>>, "float"),
      JMatrix(IntRot(RotI), <<4, 0, 0>>, "float"),
      JMatrix(Rot35, <<1, 1, 1>>, "float"),
      JMatrix(IntRot(RotI), <<4, 0, 0>>, "int") }

Paths == {"images/frame_00000.png", "images/frame_00001.png"}

FrameKeys == {"rgb_path", "world_from_camera"}

ValidFrames ==
    { [keys |-> FrameKeys, rgb_path |-> p, world_from_camera |-> m] :
        p \in Paths, m \in Matrices }

IntrinsicKeys == {"fx", "fy", "cx", "cy", "width", "height"}

\* a frame object that lacks one of the two keys main() reads
DefectiveFrames ==
    { [keys |-> FrameKeys \ {k},
       rgb_path |-> "images/frame_00000.png",
       world_from_camera |-> JMatrix(IntRot(RotI), <<0, 0, 0>>, "float")] :
        k \in FrameKeys }

\* the documents INPUT_POSES may hold
PosesDocs ==
    {[keys |-> {}, frames |-> <<>>]}
    \cup UNION { { [keys |-> {"frames"}, frames |-> fr] :
                     fr \in [1..n -> ValidFrames \cup DefectiveFrames] } :
                 n \in 0..MaxFrames }

\* the documents INPUT_INTRINSICS may hold: all six keys, or one missing
IntrinsicsDocs == {IntrinsicKeys} \cup { IntrinsicKeys \ {k} : k \in IntrinsicKeys }

\* what opening a path can do
ReadOutcomes == {"ok", "missing", "malformed"}

\* ----------------------------------------------------------- numpy arrays
\* np.array(nested list): int64 when every literal is an int, else float64
NpArray(m) ==
    [dtype |-> IF \A r \in 1..4 : \A c \in 1..4 : m[r][c].lit = "int"
               THEN "int64" ELSE "float64",
     a     |-> [r \in 1..4 |-> [c \in 1..4 |-> m[r][c].v]]]

\* ndarray.tolist(): Python floats for float64, ints for int64
ToList(arr) ==
    [r \in 1..4 |-> [c \in 1..4 |->
        [v |-> arr.a[r][c], lit |-> IF arr.dtype = "int64" THEN "int" ELSE "float"]]]

\* m[:3, 3]
Translation(a) == <<a[1][4], a[2][4], a[3][4]>>

\* all_c2w[:, :3, 3] of the stacked array
CamCenters(stack) == [k \in 1..Len(stack) |-> Translation(stack[k])]

RECURSIVE SumTo(_, _, _)
SumTo(cc, ax, k) == IF k = 0 THEN Zero ELSE FAdd(SumTo(cc, ax, k - 1), cc[k][ax])

\* mutant of Mean: the sum is not divided by the number of cameras
MeanNoDivide(cc) == [ax \in 1..3 |-> SumTo(cc, ax, Len(cc))]

\* np.mean(cam_centers, axis=0)
Mean(cc) == [ax \in 1..3 |-> FDiv(SumTo(cc, ax, Len(cc)), FromInt(Len(cc)))]

VSub(u, w) == [ax \in 1..3 |-> FSub(u[ax], w[ax])]

VScale(u, f) == [ax \in 1..3 |-> FMul(u[ax], f)]

\* np.max of a non-empty 1-d array: nan as soon as one entry is nan
RECURSIVE MaxTo(_, _)
MaxTo(xs, k) ==
    IF k = 1 THEN xs[1]
    ELSE LET m == MaxTo(xs, k - 1)
         IN  IF IsNaN(m) \/ IsNaN(xs[k]) THEN NaN
             ELSE IF m.c = "irr" \/ xs[k].c = "irr" THEN Irr
             ELSE IF FLess(m, xs[k]) THEN xs[k] ELSE m

\* np.max(np.linalg.norm(cam_centers - center, axis=1))
MaxDist(cc, ctr) == MaxTo([k \in 1..Len(cc) |-> Norm(VSub(cc[k], ctr))], Len(cc))

TargetDist == FromInt(2)

\* mutant of ScaleFactor: the furthest camera is put at distance 1.0
ScaleFactorUnit(md) == FDiv(FromInt(1), md)

\* scale_factor = 2.0 / max_dist
ScaleFactor(md) == FDiv(TargetDist, md)

\* mutant of Normalized: the scale is applied to the whole rows c2w[:3]
NormalizedRows(a, ctr, sf) ==
    LET t == VScale(VSub(Translation(a), ctr), sf)
    IN  [r \in 1..4 |-> [c \in 1..4 |->
            IF r <= 3 THEN (IF c = 4 THEN t[r] ELSE FMul(a[r][c], sf)) ELSE a[r][c]]]

\* c2w[:3, 3] -= center ; c2w[:3, 3] *= scale_factor
Normalized(a, ctr, sf) ==
    LET t == VScale(VSub(Translation(a), ctr), sf)
    IN  [r \in 1..4 |-> [c \in 1..4 |-> IF r <= 3 /\ c = 4 THEN t[r] ELSE a[r][c]]]

\* mutant of ApplyInPlace: every float64 array of the heap is updated
ApplyToAll(h, id, ctr, sf) ==
    [k \in 1..Len(h) |->
        IF h[k].dtype = "float64"
        THEN [dtype |-> h[k].dtype, a |-> Normalized(h[k].a, ctr, sf)]
        ELSE h[k]]

\* the heap after the in-place update of the one array frame_buf refers to
ApplyInPlace(h, id, ctr, sf) ==
    [h EXCEPT ![id] = [dtype |-> h[id].dtype, a |-> Normalized(h[id].a, ctr, sf)]]

\* mutant of Emit: the record is inserted at the front
EmitFront(out, frame_buf, arr) ==
    [out EXCEPT !.frames = <<[file_path |-> frame_buf.file_path,
                              transform_matrix |-> ToList(arr)]>> \o @]

\* lines 98-101: output_data["frames"].append({file_path, transform_matrix})
Emit(out, frame_buf, arr) ==
    [out EXCEPT !.frames = Append(@, [file_path |-> frame_buf.file_path,
                                      transform_matrix |-> ToList(arr)])]

\* ------------------------------------------------------------------ state
VARIABLES
    fs_poses,        \* the file at INPUT_POSES
    fs_output,       \* the file at OUTPUT_JSON
    pc,              \* position of main()
    err,             \* the unhandled exception that ended the run, if any
    poses_data,      \* main(): poses_data
    intrinsics,      \* main(): intrinsics
    output_data,     \* main(): output_data
    heap,            \* the ndarray objects made at line 54, by object id
    all_c2w_list,    \* main(): all_c2w while it is a list (object ids)
    all_c2w,         \* main(): all_c2w after line 69 (the stacked copy)
    frames_buffer,   \* main(): frames_buffer
    center,          \* main(): center
    max_dist,        \* main(): max_dist
    scale_factor,    \* main(): scale_factor
    run,             \* which run of the converter this is
    first            \* what the first run computed and wrote

vars == <<fs_poses, fs_output, pc, err, poses_data,
          intrinsics, output_data, heap, all_c2w_list, all_c2w, frames_buffer,
          center, max_dist, scale_factor, run, first>>

Unset == [c |-> "unset", s |-> 0, n |-> 0, d |-> 1]

UnsetVec == <<Unset, Unset, Unset>>

NoError == [type |-> "", line |-> 0]

NoDoc == [keys |-> {}, frames |-> <<>>]

NoFile == [exists |-> FALSE, text |-> "", data |-> [keys |-> {}, frames |-> <<>>]]

\* the keys of output_data, lines 26-44
ManifestKeys ==
    {"fl_x", "fl_y", "cx", "cy", "w", "h", "sk_x", "sk_y", "k1", "k2", "p1", "p2",
     "is_fisheye", "sphere_center", "sphere_radius", "aabb_scale", "frames"}

\* the freshly started process: no local is bound yet
Fresh ==
    /\ pc = "load_poses"
    /\ err = NoError
    /\ poses_data = NoDoc
    /\ intrinsics = {}
    /\ output_data = [keys |-> {}, frames |-> <<>>]
    /\ heap = <<>>
    /\ all_c2w_list = <<>>
    /\ all_c2w = <<>>
    /\ frames_buffer = <<>>
    /\ center = UnsetVec
    /\ max_dist = Unset
    /\ scale_factor = Unset

Init ==
    /\ fs_poses \in PosesDocs
    /\ fs_output = NoFile
    /\ run = 1
    /\ first = [scale_factor |-> Unset, file |-> NoFile]
    /\ Fresh

Raise(type, line) ==
    /\ pc' = "error"
    /\ err' = [type |-> type, line |-> line]

\* line 21: poses_data = load_json(INPUT_POSES)
LoadPoses ==
    /\ pc = "load_poses"
    /\ \E outcome \in ReadOutcomes :
          IF outcome = "missing"
          THEN Raise("FileNotFoundError", 17) /\ UNCHANGED poses_data
          ELSE IF outcome = "malformed"
          THEN Raise("JSONDecodeError", 18) /\ UNCHANGED poses_data
          ELSE /\ poses_data' = fs_poses
               /\ pc' = "load_intrinsics"
               /\ UNCHANGED err
    /\ UNCHANGED <<fs_poses, fs_output, intrinsics, output_data, heap, all_c2w_list,
                   all_c2w, frames_buffer, center, max_dist, scale_factor, run, first>>

\* line 22: intrinsics = load_json(INPUT_INTRINSICS)
LoadIntrinsics ==
    /\ pc = "load_intrinsics"
    /\ \E outcome \in ReadOutcomes :
          IF outcome = "missing"
          THEN Raise("FileNotFoundError", 17) /\ UNCHANGED intrinsics
          ELSE IF outcome = "malformed"
          THEN Raise("JSONDecodeError", 18) /\ UNCHANGED intrinsics
          ELSE /\ intrinsics' \in IntrinsicsDocs
               /\ pc' = "header"
               /\ UNCHANGED err
    /\ UNCHANGED <<fs_poses, fs_output, poses_data, output_data, heap, all_c2w_list,
                   all_c2w, frames_buffer, center, max_dist, scale_factor, run, first>>

\* lines 26-44: output_data = {...intrinsics[...]..., "frames": []}
BuildHeader ==
    /\ pc = "header"
    /\ IF IntrinsicKeys \subseteq intrinsics
       THEN /\ output_data' = [keys |-> ManifestKeys, frames |-> <<>>]
            /\ pc' = "count"
            /\ UNCHANGED err
       ELSE Raise("KeyError", 27) /\ UNCHANGED output_data
    /\ UNCHANGED <<fs_poses, fs_output, poses_data, intrinsics, heap, all_c2w_list,
                   all_c2w, frames_buffer, center, max_dist, scale_factor, run, first>>

\* mutant of CountFrames: the output file is opened before the frames are read
CountFramesOpensOutput ==
    /\ pc = "count"
    /\ fs_output' = [exists |-> TRUE, text |-> "", data |-> NoFile.data]
    /\ IF "frames" \in poses_data.keys
       THEN pc' = "collect" /\ UNCHANGED err
       ELSE Raise("KeyError", 50)
    /\ UNCHANGED <<fs_poses, poses_data, intrinsics, output_data, heap,
                   all_c2w_list, all_c2w, frames_buffer, center, max_dist,
                   scale_factor, run, first>>

\* line 50: len(poses_data['frames'])
CountFrames ==
    /\ pc = "count"
    /\ IF "frames" \in poses_data.keys
       THEN pc' = "collect" /\ UNCHANGED err
       ELSE Raise("KeyError", 50)
    /\ UNCHANGED <<fs_poses, fs_output, poses_data, intrinsics, output_data, heap,
                   all_c2w_list, all_c2w, frames_buffer, center, max_dist,
                   scale_factor, run, first>>

\* lines 52-64: one iteration of the collecting loop, or its end
CollectFrame ==
    /\ pc = "collect"
    /\ LET k == Len(heap) + 1 IN
       IF k > Len(poses_data.frames)
       THEN /\ pc' = "normalize"
            /\ UNCHANGED <<err, heap, all_c2w_list, frames_buffer>>
       ELSE LET frame == poses_data.frames[k] IN
            IF "world_from_camera" \notin frame.keys
            THEN Raise("KeyError", 54) /\ UNCHANGED <<heap, all_c2w_list, frames_buffer>>
            ELSE /\ heap' = Append(heap, NpArray(frame.world_from_camera))
                 /\ all_c2w_list' = Append(all_c2w_list, k)
                 /\ IF "rgb_path" \notin frame.keys
                    THEN Raise("KeyError", 62) /\ UNCHANGED frames_buffer
                    ELSE /\ frames_buffer' = Append(frames_buffer,
                                [file_path |-> frame.rgb_path, original_matrix |-> k])
                         /\ UNCHANGED <<pc, err>>
    /\ UNCHANGED <<fs_poses, fs_output, poses_data, intrinsics, output_data, all_c2w,
                   center, max_dist, scale_factor, run, first>>

\* mutant of Normalize: an empty pose list is accepted, with no statistics
NormalizeEmptyTolerant ==
    /\ pc = "normalize"
    /\ LET stack == [k \in 1..Len(all_c2w_list) |-> heap[all_c2w_list[k]].a]
           cc    == CamCenters(stack)
       IN  /\ all_c2w' = stack
           /\ center' = IF stack = <<>> THEN <<Zero, Zero, Zero>> ELSE Mean(cc)
           /\ max_dist' = IF stack = <<>> THEN Zero ELSE MaxDist(cc, Mean(cc))
           /\ scale_factor' = IF stack = <<>> THEN FromInt(1)
                              ELSE ScaleFactor(MaxDist(cc, Mean(cc)))
           /\ pc' = "transform"
    /\ UNCHANGED <<fs_poses, fs_output, err, poses_data, intrinsics, output_data, heap,
                   all_c2w_list, frames_buffer, run, first>>

\* lines 69-82: stack the matrices (a copy), derive center, max_dist, scale_factor
Normalize ==
    /\ pc = "normalize"
    /\ IF all_c2w_list = <<>>
       THEN \* np.array([]) has one axis: all_c2w[:, :3, 3] cannot be indexed
            /\ Raise("IndexError", 70)
            /\ UNCHANGED <<all_c2w, center, max_dist, scale_factor>>
       ELSE LET stack == [k \in 1..Len(all_c2w_list) |-> heap[all_c2w_list[k]].a]
                cc    == CamCenters(stack)
                ctr   == Mean(cc)
                md    == MaxDist(cc, ctr)
            IN  /\ all_c2w' = stack
                /\ center' = ctr
                /\ max_dist' = md
                /\ scale_factor' = ScaleFactor(md)
                /\ pc' = "transform"
                /\ UNCHANGED err
    /\ UNCHANGED <<fs_poses, fs_output, poses_data, intrinsics, output_data, heap,
                   all_c2w_list, frames_buffer, run, first>>

\* lines 88-101: one iteration of the transforming loop, or its end
TransformFrame ==
    /\ pc = "transform"
    /\ LET i == Len(output_data.frames) + 1 IN
       IF i > Len(frames_buffer)
       THEN pc' = "open" /\ UNCHANGED <<err, heap, output_data>>
       ELSE LET frame_buf == frames_buffer[i]
                id        == frame_buf.original_matrix
                c2w       == heap[id]
            IN  IF c2w.dtype = "int64"
                THEN \* in-place subtract of a float64 from an int64 array
                     Raise("UFuncTypeError", 93) /\ UNCHANGED <<heap, output_data>>
                ELSE LET h == ApplyInPlace(heap, id, center, scale_factor)
                     IN  /\ heap' = h
                         /\ output_data' = Emit(output_data, frame_buf, h[id])
                         /\ UNCHANGED <<pc, err>>
    /\ UNCHANGED <<fs_poses, fs_output, poses_data, intrinsics, all_c2w_list, all_c2w,
                   frames_buffer, center, max_dist, scale_factor, run, first>>

\* line 103: open(OUTPUT_JSON, 'w') creates or truncates the file
OpenOutput ==
    /\ pc = "open"
    /\ \E writable \in BOOLEAN :
          IF writable
          THEN /\ fs_output' = [exists |-> TRUE, text |-> "", data |-> NoFile.data]
               /\ pc' = "dump"
               /\ UNCHANGED err
          ELSE Raise("PermissionError", 103) /\ UNCHANGED fs_output
    /\ UNCHANGED <<fs_poses, poses_data, intrinsics, output_data, heap, all_c2w_list,
                   all_c2w, frames_buffer, center, max_dist, scale_factor, run, first>>

\* lines 104-107: json.dump(output_data, outfile), close, report success
DumpOutput ==
    /\ pc = "dump"
    /\ fs_output' = [exists |-> TRUE, text |-> "json", data |-> output_data]
    /\ pc' = "done"
    /\ UNCHANGED <<fs_poses, err, poses_data, intrinsics, output_data, heap, all_c2w_list,
                   all_c2w, frames_buffer, center, max_dist, scale_factor, run, first>>

\* the manifest as the next run's pose file: transform_matrix read as
\* world_from_camera, file_path as rgb_path
AsPoses(manifest) ==
    [keys   |-> {"frames"},
     frames |-> [k \in 1..Len(manifest.frames) |->
                   [keys |-> FrameKeys,
                    rgb_path |-> manifest.frames[k].file_path,
                    world_from_camera |-> manifest.frames[k].transform_matrix]]]

\* lines 109-110, a second time: the converter is run again on its own output
Rerun ==
    /\ pc = "done"
    /\ run = 1
    /\ run' = 2
    /\ first' = [scale_factor |-> scale_factor, file |-> fs_output]
    /\ fs_poses' = AsPoses(fs_output.data)
    /\ pc' = "load_poses"
    /\ err' = NoError
    /\ poses_data' = NoDoc
    /\ intrinsics' = {}
    /\ output_data' = [keys |-> {}, frames |-> <<>>]
    /\ heap' = <<>>
    /\ all_c2w_list' = <<>>
    /\ all_c2w' = <<>>
    /\ frames_buffer' = <<>>
    /\ center' = UnsetVec
    /\ max_dist' = Unset
    /\ scale_factor' = Unset
    /\ UNCHANGED fs_output

Next ==
    \/ LoadPoses
    \/ LoadIntrinsics
    \/ BuildHeader
    \/ CountFrames
    \/ CollectFrame
    \/ Normalize
    \/ TransformFrame
    \/ OpenOutput
    \/ DumpOutput
    \/ Rerun

Spec == Init /\ [][Next]_vars

\* every number the run holds is one the representation holds
TypeOK ==
    /\ \A k \in 1..Len(heap) : \A r \in 1..4 : \A c \in 1..4 : heap[k].a[r][c].c # "irr"
    /\ \A ax \in 1..3 : center[ax].c # "irr"
    /\ max_dist.c # "irr"
    /\ scale_factor.c # "irr"

\* ----------------------------------------------------------------- claims
\* x <= y, false as soon as one side is not finite
FLeq(x, y) == IsFinite(x) /\ IsFinite(y) /\ ~FLess(y, x)

\* the frames of the pose file this run reads
InputFrames == fs_poses.frames

\* the manifest in the output file
Manifest == fs_output.data

\* this run has written its manifest
Written == pc = "done"

InMatrix(i) == InputFrames[i].world_from_camera

OutMatrix(i) == Manifest.frames[i].transform_matrix

InT(i) == <<InMatrix(i)[1][4].v, InMatrix(i)[2][4].v, InMatrix(i)[3][4].v>>

OutT(i) == <<OutMatrix(i)[1][4].v, OutMatrix(i)[2][4].v, OutMatrix(i)[3][4].v>>

\* every input frame has both keys
ValidInput ==
    /\ fs_poses.keys = {"frames"}
    /\ \A k \in 1..Len(InputFrames) : InputFrames[k].keys = FrameKeys

NFrames == Len(InputFrames)

\* all cameras at one point
AllCoincide == NFrames >= 1 /\ \A i \in 1..NFrames : InT(i) = InT(1)

\* C1: a written manifest has as many frames as the input, and frame i
\* carries the rgb_path of input frame i as its file_path.
C1_FramesInInputOrder ==
    Written =>
        /\ Len(Manifest.frames) = Len(InputFrames)
        /\ \A i \in 1..Len(InputFrames) :
              Manifest.frames[i].file_path = InputFrames[i].rgb_path

\* C1 (as claimed): a run on a valid input writes the manifest.  Stated for
\* inputs with at least one frame whose cameras do not all coincide: such a
\* run, once ended, has written its manifest with the frames in input order,
\* unless the environment stopped it (a file that cannot be read, an
\* intrinsics key, an output path that cannot be written).
C1_EveryValidInputWritten ==
    (/\ run = 1
     /\ ValidInput
     /\ NFrames >= 1
     /\ ~AllCoincide
     /\ pc \in {"done", "error"}
     /\ err.line \notin {17, 18, 27, 103}) =>
        /\ Written
        /\ Len(Manifest.frames) = NFrames
        /\ \A i \in 1..NFrames : Manifest.frames[i].file_path = InputFrames[i].rgb_path

C1_Witness ==
    /\ Written
    /\ run = 1
    /\ Len(InputFrames) = 3
    /\ InputFrames[1].rgb_path = InputFrames[3].rgb_path
    /\ InputFrames[1].rgb_path # InputFrames[2].rgb_path
    /\ InMatrix(1) = InMatrix(2)
    /\ InMatrix(1) # InMatrix(3)

\* C6: in a written manifest every entry of transform_matrix outside rows
\* 0-2 of column 3 equals the same entry of the input world_from_camera.
C6_RotationUntouched ==
    Written =>
        \A i \in 1..Len(Manifest.frames) : \A r \in 1..4 : \A c \in 1..4 :
            ~(r <= 3 /\ c = 4) => OutMatrix(i)[r][c].v = InMatrix(i)[r][c].v

C6_Witness ==
    /\ Written
    /\ run = 1
    /\ IsFinite(scale_factor)
    /\ scale_factor # FromInt(1)
    /\ \E i \in 1..Len(Manifest.frames) :
          /\ InMatrix(i)[1][1].v = Rat(3, 5)
          /\ OutMatrix(i)[1][2].v = Rat(-4, 5)
          /\ OutT(i) # InT(i)

\* lines 69-82 have run
Normalised == max_dist # Unset

\* The first run's input translations are integers; the statistics below are
\* stated on them in integer arithmetic, n = number of frames:
\*   SumAx(ax)   = sum over frames of t[ax]
\*   Dev(k, ax)  = n * t_k[ax] - SumAx(ax)       = n * (t_k - center)[ax]
\*   Q(k)        = sum over ax of Dev(k, ax)^2   = (n * |t_k - center|)^2
IntOf(x) == x.s * ISqrt(x.n)

RECURSIVE SumAxTo(_, _)
SumAxTo(ax, k) == IF k = 0 THEN 0 ELSE SumAxTo(ax, k - 1) + IntOf(InT(k)[ax])

SumAx(ax) == SumAxTo(ax, NFrames)

Dev(k, ax) == NFrames * IntOf(InT(k)[ax]) - SumAx(ax)

Q(k) == Dev(k, 1) * Dev(k, 1) + Dev(k, 2) * Dev(k, 2) + Dev(k, 3) * Dev(k, 3)

MaxQ == CHOOSE q \in {Q(k) : k \in 1..NFrames} : \A k \in 1..NFrames : Q(k) <= q

\* C7: center is the component-wise mean, max_dist the largest distance to
\* it, scale_factor 2 / max_dist (inf when max_dist is 0), and every output
\* translation (t - center) * scale_factor; (0,0,0), (4,0,0) give center
\* (2,0,0), max_dist 2, scale_factor 1 and outputs (-2,0,0), (2,0,0).
C7_NormalizerFormulas ==
    (run = 1 /\ Normalised) =>
        /\ \A ax \in 1..3 : center[ax] = Rat(SumAx(ax), NFrames)
        /\ max_dist = Fin(1, MaxQ, NFrames * NFrames)
        /\ scale_factor = IF MaxQ = 0 THEN Inf(1) ELSE Fin(1, 4 * NFrames * NFrames, MaxQ)
        /\ Written =>
              \A i \in 1..NFrames : \A ax \in 1..3 :
                  OutT(i)[ax] = IF MaxQ = 0 THEN NaN
                                ELSE Fin(Sign(Dev(i, ax)), 4 * Dev(i, ax) * Dev(i, ax), MaxQ)
        /\ (NFrames = 2 /\ InT(1) = <<Zero, Zero, Zero>>
                /\ InT(2) = <<FromInt(4), Zero, Zero>>) =>
              /\ center = <<FromInt(2), Zero, Zero>>
              /\ max_dist = FromInt(2)
              /\ scale_factor = FromInt(1)
              /\ Written => /\ OutT(1) = <<FromInt(-2), Zero, Zero>>
                            /\ OutT(2) = <<FromInt(2), Zero, Zero>>

C7_Witness ==
    /\ run = 1
    /\ Written
    /\ NFrames = 2
    /\ InT(1) = <<Zero, Zero, Zero>>
    /\ InT(2) = <<FromInt(4), Zero, Zero>>
    /\ OutT(1) = <<FromInt(-2), Zero, Zero>>

\* a second reachable case of C7: three cameras, an irrational max_dist
C7_WitnessIrrational ==
    /\ run = 1
    /\ Written
    /\ NFrames = 3
    /\ ISqrt(max_dist.n) * ISqrt(max_dist.n) # max_dist.n

\* C2 (as claimed): in a written manifest every translation has norm at
\* most 2.0, and a camera furthest from the centroid has norm exactly 2.0.
C2_WithinTargetDistance ==
    (run = 1 /\ Written) =>
        /\ \A i \in 1..NFrames : FLeq(Norm(OutT(i)), TargetDist)
        /\ \E i \in 1..NFrames : Q(i) = MaxQ /\ Norm(OutT(i)) = TargetDist

\* C2 where the cameras do not all coincide: the bound holds and is attained
C2_WithinTargetDistanceNonDegenerate ==
    (run = 1 /\ Written /\ MaxQ # 0) =>
        /\ \A i \in 1..NFrames : FLeq(Norm(OutT(i)), TargetDist)
        /\ \A i \in 1..NFrames : Q(i) = MaxQ => Norm(OutT(i)) = TargetDist
        /\ \A i \in 1..NFrames : Q(i) # MaxQ => Norm(OutT(i)) # TargetDist

HasNaN(manifest) ==
    \E i \in 1..Len(manifest.frames) : \E r \in 1..4 : \E c \in 1..4 :
        manifest.frames[i].transform_matrix[r][c].v.c # "fin"

\* C3 (as claimed): when all input translations are equal the run ends in
\* an error and writes nothing; no manifest holds an infinite or NaN value.
C3_DegenerateRaises ==
    /\ (run = 1 /\ ValidInput /\ AllCoincide) => (pc # "done" /\ fs_output = NoFile)
    /\ (fs_output.text = "json") => ~HasNaN(Manifest)

\* C5 (as claimed): the mean of the output translations, divided by
\* scale_factor, is the zero vector.
C5_OutputCentred ==
    (run = 1 /\ Written) =>
        \A ax \in 1..3 :
            FDiv(Mean([i \in 1..NFrames |-> OutT(i)])[ax], scale_factor) = Zero

\* C5 where the cameras do not all coincide
C5_OutputCentredNonDegenerate ==
    (run = 1 /\ Written /\ MaxQ # 0) =>
        \A ax \in 1..3 :
            FDiv(Mean([i \in 1..NFrames |-> OutT(i)])[ax], scale_factor) = Zero

\* C4 (as claimed, for cameras that do not all coincide): the second run
\* writes translations that differ from the first run's, and computes a
\* different scale factor.
C4_RerunShrinksAgain ==
    (run = 2 /\ Written /\ IsFinite(first.scale_factor)) =>
        /\ \E i \in 1..NFrames : OutT(i) # InT(i)
        /\ scale_factor # first.scale_factor

\* C4 (amended): the second run reproduces the first run's frames; when the
\* first scale factor was finite it finds center 0, max_dist 2 and
\* scale_factor 1, so the two scale factors are equal exactly when the first
\* one was 1.
C4_RerunReproduces ==
    (run = 2 /\ Written) =>
        /\ Manifest.frames = first.file.data.frames
        /\ \A i \in 1..NFrames : OutT(i) = InT(i)
        /\ IsFinite(first.scale_factor) =>
              /\ center = <<Zero, Zero, Zero>>
              /\ max_dist = TargetDist
              /\ scale_factor = FromInt(1)
        /\ (scale_factor = first.scale_factor) <=> (first.scale_factor = FromInt(1))

C4_Witness ==
    /\ run = 2
    /\ Written
    /\ NFrames = 3
    /\ IsFinite(first.scale_factor)
    /\ first.scale_factor # FromInt(1)
    /\ scale_factor = FromInt(1)
    /\ \E i \in 1..NFrames : FLess(Norm(OutT(i)), TargetDist)

\* the output file as this run found it
RunStartFile == IF run = 1 THEN NoFile ELSE first.file

\* C8: the output file is touched only once every frame is loaded and
\* transformed and the statistics exist; a run that ends in an error of
\* loading, of a missing key or of a transform leaves the file as it found
\* it; a manifest in the file never holds only some of the frames.
C8_WriteAfterAllComputed ==
    /\ (fs_output # RunStartFile) =>
          /\ pc \in {"dump", "done"}
          /\ ValidInput
          /\ Normalised
          /\ Len(frames_buffer) = Len(InputFrames)
          /\ Len(output_data.frames) = Len(InputFrames)
    /\ (pc = "error" /\ err.line < 103) => fs_output = RunStartFile
    /\ (fs_output.text = "json") => Len(Manifest.frames) = Len(InputFrames)

\* a transform fails after an earlier frame was transformed; nothing written
C8_Witness ==
    /\ pc = "error"
    /\ err = [type |-> "UFuncTypeError", line |-> 93]
    /\ Len(output_data.frames) >= 1
    /\ fs_output = NoFile

\* the input matrices as np.array reads them
OriginalStack == [k \in 1..Len(InputFrames) |-> NpArray(InMatrix(k)).a]

\* C9: center and scale_factor come from the untransformed translations;
\* a transform step changes neither them, nor the stacked array, nor the
\* array of any other frame; equal input translations give equal output
\* translations, whatever their position in the loop.
C9_ParametersFixed ==
    /\ [](Normalised =>
            /\ all_c2w = OriginalStack
            /\ center = Mean(CamCenters(OriginalStack))
            /\ scale_factor = ScaleFactor(MaxDist(CamCenters(OriginalStack), center)))
    /\ [][pc = "transform" =>
            /\ center' = center
            /\ max_dist' = max_dist
            /\ scale_factor' = scale_factor
            /\ all_c2w' = all_c2w
            /\ \A j \in 1..Len(heap) :
                  j # Len(output_data.frames) + 1 => heap'[j] = heap[j]]_vars
    /\ [](Written =>
            \A i \in 1..NFrames : \A j \in 1..NFrames :
                InT(i) = InT(j) => OutT(i) = OutT(j))

\* mid-loop: frame 1 is rewritten, the stacked copy still holds the original
C9_Witness ==
    /\ run = 1
    /\ pc = "transform"
    /\ Len(frames_buffer) = 3
    /\ Len(output_data.frames) = 1
    /\ heap[1].a # all_c2w[1]
    /\ heap[2].a = all_c2w[2]
    /\ InT(1) = InT(3)

\* C10: with an empty frames array the run never reaches the transform or
\* the write, leaves the output file alone, and once the documents are
\* loaded ends in the IndexError of line 70.
C10_EmptyFramesFail ==
    (ValidInput /\ InputFrames = <<>>) =>
        /\ pc \notin {"transform", "open", "dump", "done"}
        /\ fs_output = NoFile
        /\ (pc = "error" /\ err.line > 50) => err = [type |-> "IndexError", line |-> 70]

C10_Witness ==
    /\ ValidInput
    /\ InputFrames = <<>>
    /\ pc = "error"
    /\ err = [type |-> "IndexError", line |-> 70]
    /\ output_data.keys = ManifestKeys

====
